---------------------------- MODULE Spec2Model ----------------------------
(***************************************************************************)
(* ProTeX (Python version): the line-oriented engine of protex.py that    *)
(* turns DAO prologues into LaTeX.  Strings are sequences of one-character *)
(* strings, so that splitting, stripping, joining, substring containment  *)
(* and replacement are computed the way the Python code computes them.    *)
(* The output is a sequence of fragments [k |-> kind, t |-> text].        *)
(***************************************************************************)
EXTENDS Integers, Sequences, FiniteSets, TLC

\* ------------------------------------------------------------------------
\* Python string primitives used by protex.py
\* ------------------------------------------------------------------------

\* whitespace as str.split() / str.strip() see it
IsSpace(c) == c \in {" ", "\t", "\n"}

RECURSIVE rstrip(_)
rstrip(s) ==
  IF s = <<>> THEN <<>>
  ELSE IF IsSpace(s[Len(s)]) THEN rstrip(SubSeq(s, 1, Len(s) - 1))
  ELSE s

RECURSIVE lstrip(_)
lstrip(s) ==
  IF s = <<>> THEN <<>>
  ELSE IF IsSpace(Head(s)) THEN lstrip(Tail(s))
  ELSE s

strip(s) == lstrip(rstrip(s))

\* s.split(): whitespace-delimited tokens, no empty token
RECURSIVE splitAcc(_, _, _)
splitAcc(s, cur, acc) ==
  IF s = <<>> THEN (IF cur = <<>> THEN acc ELSE Append(acc, cur))
  ELSE IF IsSpace(Head(s))
       THEN splitAcc(Tail(s), <<>>, IF cur = <<>> THEN acc ELSE Append(acc, cur))
       ELSE splitAcc(Tail(s), Append(cur, Head(s)), acc)

split(s) == splitAcc(s, <<>>, <<>>)

\* s.split(','): every comma separates, empty parts are kept
RECURSIVE splitCommaAcc(_, _, _)
splitCommaAcc(s, cur, acc) ==
  IF s = <<>> THEN Append(acc, cur)
  ELSE IF Head(s) = ","
       THEN splitCommaAcc(Tail(s), <<>>, Append(acc, cur))
       ELSE splitCommaAcc(Tail(s), Append(cur, Head(s)), acc)

splitComma(s) == splitCommaAcc(s, <<>>, <<>>)

\* " ".join(fields)
RECURSIVE join(_)
join(fields) ==
  IF fields = <<>> THEN <<>>
  ELSE IF Len(fields) = 1 THEN fields[1]
  ELSE fields[1] \o <<" ">> \o join(Tail(fields))

\* s.replace("_", "\\_")
RECURSIVE escapeUnderscore(_)
escapeUnderscore(s) ==
  IF s = <<>> THEN <<>>
  ELSE (IF Head(s) = "_" THEN <<"\\", "_">> ELSE <<Head(s)>>)
       \o escapeUnderscore(Tail(s))

\* s.startswith(p)
startswith(s, p) == Len(p) <= Len(s) /\ SubSeq(s, 1, Len(p)) = p

\* sub in s
Contains(sub, s) ==
  \E i \in 1..(Len(s) - Len(sub) + 1) : SubSeq(s, i, i + Len(sub) - 1) = sub

\* fields[n:] for a 0-based n
Drop(fields, n) == SubSeq(fields, n + 1, Len(fields))

\* os.path.basename(filename)
RECURSIVE basename(_)
basename(p) ==
  IF \E i \in 1..Len(p) : p[i] = "/"
  THEN basename(Tail(p))
  ELSE p


\* ------------------------------------------------------------------------
\* Literal strings of protex.py
\* ------------------------------------------------------------------------

\* field markers that are literal whatever the comment symbol is
sQUOTE == <<"!", "Q", "U", "O", "T", "E", ":">>
sTITLE == <<"!", "T", "I", "T", "L", "E", ":">>
sAUTHORS == <<"!", "A", "U", "T", "H", "O", "R", "S", ":">>
sAFFILIATION == <<"!", "A", "F", "F", "I", "L", "I", "A", "T", "I", "O", "N", ":">>
sDATE == <<"!", "D", "A", "T", "E", ":">>
sINTRODUCTION == <<"!", "I", "N", "T", "R", "O", "D", "U", "C", "T", "I", "O", "N", ":">>
sMODULE == <<"!", "M", "O", "D", "U", "L", "E", ":">>
sPROGRAM == <<"!", "P", "R", "O", "G", "R", "A", "M", ":">>
sROUTINE == <<"!", "R", "O", "U", "T", "I", "N", "E", ":">>
sFUNCTION == <<"!", "F", "U", "N", "C", "T", "I", "O", "N", ":">>
sIROUTINE == <<"!", "I", "R", "O", "U", "T", "I", "N", "E", ":">>
sIFUNCTION == <<"!", "I", "F", "U", "N", "C", "T", "I", "O", "N", ":">>
sIIROUTINE == <<"!", "I", "I", "R", "O", "U", "T", "I", "N", "E", ":">>
sCROUTINE == <<"!", "C", "R", "O", "U", "T", "I", "N", "E", ":">>
sDESCRIPTION == <<"!", "D", "E", "S", "C", "R", "I", "P", "T", "I", "O", "N", ":">>
sStandardInput == <<"S", "t", "a", "n", "d", "a", "r", "d", " ", "I", "n", "p", "u", "t">>

\* the default of --keys, in list order
key01 == <<"!", "I", "N", "T", "E", "R", "F", "A", "C", "E", ":">>
key02 == <<"!", "U", "S", "E", "S", ":">>
key03 == <<"!", "P", "U", "B", "L", "I", "C", " ", "T", "Y", "P", "E", "S", ":">>
key04 == <<"!", "P", "R", "I", "V", "A", "T", "E", " ", "T", "Y", "P", "E", "S", ":">>
key05 ==
  <<"!", "P", "U", "B", "L", "I", "C", " ", "M", "E", "M", "B", "E", "R", " ", "F", "U", "N",
    "C", "T", "I", "O", "N", "S", ":">>
key06 ==
  <<"!", "P", "R", "I", "V", "A", "T", "E", " ", "M", "E", "M", "B", "E", "R", " ", "F", "U",
    "N", "C", "T", "I", "O", "N", "S", ":">>
key07 ==
  <<"!", "P", "U", "B", "L", "I", "C", " ", "D", "A", "T", "A", " ", "M", "E", "M", "B", "E",
    "R", "S", ":">>
key08 == <<"!", "P", "A", "R", "A", "M", "E", "T", "E", "R", "S", ":">>
key09 == <<"!", "A", "R", "G", "U", "M", "E", "N", "T", "S", ":">>
key10 ==
  <<"!", "D", "E", "F", "I", "N", "E", "D", " ", "P", "A", "R", "A", "M", "E", "T", "E", "R",
    "S", ":">>
key11 ==
  <<"!", "I", "N", "P", "U", "T", " ", "P", "A", "R", "A", "M", "E", "T", "E", "R", "S", ":">>
key12 ==
  <<"!", "I", "N", "P", "U", "T", "/", "O", "U", "T", "P", "U", "T", " ", "P", "A", "R", "A",
    "M", "E", "T", "E", "R", "S", ":">>
key13 ==
  <<"!", "O", "U", "T", "P", "U", "T", " ", "P", "A", "R", "A", "M", "E", "T", "E", "R", "S",
    ":">>
key14 == <<"!", "R", "E", "T", "U", "R", "N", " ", "V", "A", "L", "U", "E", ":">>
key15 ==
  <<"!", "R", "E", "V", "I", "S", "I", "O", "N", " ", "H", "I", "S", "T", "O", "R", "Y", ":">>
key16 == <<"!", "B", "U", "G", "S", ":">>
key17 == <<"!", "S", "E", "E", " ", "A", "L", "S", "O", ":">>
key18 == <<"!", "S", "Y", "S", "T", "E", "M", " ", "R", "O", "U", "T", "I", "N", "E", "S", ":">>
key19 == <<"!", "F", "I", "L", "E", "S", " ", "U", "S", "E", "D", ":">>
key20 == <<"!", "R", "E", "M", "A", "R", "K", "S", ":">>
key21 == <<"!", "T", "O", " ", "D", "O", ":">>
key22 ==
  <<"!", "C", "A", "L", "L", "I", "N", "G", " ", "S", "E", "Q", "U", "E", "N", "C", "E", ":">>
key23 == <<"!", "A", "U", "T", "H", "O", "R", ":">>
key24 == <<"!", "C", "A", "L", "L", "E", "D", " ", "F", "R", "O", "M", ":">>
key25 == <<"!", "L", "O", "C", "A", "L", " ", "V", "A", "R", "I", "A", "B", "L", "E", "S", ":">>

default_keys ==
  <<key01, key02, key03, key04, key05, key06, key07, key08, key09,
    key10, key11, key12, key13, key14, key15, key16, key17, key18,
    key19, key20, key21, key22, key23, key24, key25>>

\* the words that select the emphasized label style
emUSES == <<"U", "S", "E", "S">>
emINPUT == <<"I", "N", "P", "U", "T">>
emOUTPUT == <<"O", "U", "T", "P", "U", "T">>
emPARAMETERS == <<"P", "A", "R", "A", "M", "E", "T", "E", "R", "S">>
emVALUE == <<"V", "A", "L", "U", "E">>
emARGUMENTS == <<"A", "R", "G", "U", "M", "E", "N", "T", "S">>

em_words == <<emUSES, emINPUT, emOUTPUT, emPARAMETERS, emVALUE, emARGUMENTS>>

\* heading templates; %s is a placeholder of the % operator
tplModule ==
  <<"\\", "s", "u", "b", "s", "e", "c", "t", "i", "o", "n", "{", "F", "o", "r", "t", "r",
    "a", "n", ":", " ", "M", "o", "d", "u", "l", "e", " ", "I", "n", "t", "e", "r", "f", "a",
    "c", "e", " ", "%", "s", " ", "(", "S", "o", "u", "r", "c", "e", " ", "F", "i", "l", "e",
    ":", " ", "%", "s", ")", "}", "\n">>
tplProgram ==
  <<"\\", "s", "u", "b", "s", "e", "c", "t", "i", "o", "n", "{", "F", "o", "r", "t", "r",
    "a", "n", ":", " ", "M", "a", "i", "n", " ", "P", "r", "o", "g", "r", "a", "m", " ", "%",
    "s", " ", "(", "S", "o", "u", "r", "c", "e", " ", "F", "i", "l", "e", ":", " ", "%", "s",
    ")", "}", "\n">>
tplRoutine ==
  <<"\\", "s", "u", "b", "s", "u", "b", "s", "e", "c", "t", "i", "o", "n", "{", "%", "s",
    " ", "(", "S", "o", "u", "r", "c", "e", " ", "F", "i", "l", "e", ":", " ", "%", "s", ")",
    "}", "\n">>
tplInternal ==
  <<"\\", "s", "u", "b", "s", "u", "b", "s", "e", "c", "t", "i", "o", "n", " ", "[", "%",
    "s", "]", "{", "%", "s", "}", "\n">>
sSourceFileRef ==
  <<" ", "(", "S", "o", "u", "r", "c", "e", " ", "F", "i", "l", "e", ":", " ", "%", "s", ")">>

\* ------------------------------------------------------------------------
\* Languages and marker tokens
\* ------------------------------------------------------------------------

language_info ==
  [F |-> [name |-> "Fortran90", comment |-> <<"!">>,      lang |-> "fortran"],
   A |-> [name |-> "Ada",       comment |-> <<"-", "-">>, lang |-> "ada"],
   C |-> [name |-> "C++",       comment |-> <<"/", "/">>, lang |-> "c"],
   S |-> [name |-> "Shell",     comment |-> <<"#">>,      lang |-> "bash"],
   G |-> [name |-> "GrADS",     comment |-> <<"*">>,      lang |-> "bash"],
   P |-> [name |-> "Python",    comment |-> <<"#">>,      lang |-> "python"]]

\* a returned value, or a raised ValueError
Returns(v) == [raised |-> FALSE, val |-> v]
ValueError == [raised |-> TRUE, val |-> <<>>]

get_language_info_defaulting(code, info_type) ==
  IF info_type \notin {"comment", "lang", "name"} THEN ValueError
  ELSE IF code \notin DOMAIN language_info
       THEN Returns(language_info["F"][info_type])
       ELSE Returns(language_info[code][info_type])

get_language_info(code, info_type) ==
  IF code \notin DOMAIN language_info THEN ValueError
  ELSE IF info_type \notin {"comment", "lang", "name"} THEN ValueError
  ELSE Returns(language_info[code][info_type])

get_language_tokens(lang) ==
  LET got    == get_language_info(lang, "comment")
      symbol == got.val
  IN
  IF got.raised THEN ValueError
  ELSE Returns(
       [comment |-> symbol,
        bop     |-> symbol \o <<"B", "O", "P">>,
        eop     |-> symbol \o <<"E", "O", "P">>,
        boi     |-> symbol \o <<"B", "O", "I">>,
        eoi     |-> symbol \o <<"E", "O", "I">>,
        boc     |-> symbol \o <<"B", "O", "C">>,
        eoc     |-> symbol \o <<"E", "O", "C">>,
        boe     |-> symbol \o <<"B", "O", "E">>,
        eoe     |-> symbol \o <<"E", "O", "E">>,
        bor     |-> symbol \o <<"B", "O", "R">>,
        eor     |-> symbol \o <<"E", "O", "R">>,
        bopi    |-> symbol \o <<"B", "O", "P", "I">>,
        eopi    |-> symbol \o <<"E", "O", "P", "I">>,
        iiro    |-> symbol \o <<"I", "I", "R", "O", "U", "T", "I", "N", "E", ":">>,
        cro     |-> symbol \o <<"C", "R", "O", "U", "T", "I", "N", "E", ":">>,
        program |-> symbol \o <<"P", "R", "O", "G", "R", "A", "M", ":">>])

\* ------------------------------------------------------------------------
\* Output fragments: what one or more print() calls write
\* ------------------------------------------------------------------------

Frag(k, t) == [k |-> k, t |-> t]

\* the result of a step: the state it leaves and the fragments it printed
Res(st, out) == [st |-> st, out |-> out]

\* ------------------------------------------------------------------------
\* Document begin, code begin and end
\* ------------------------------------------------------------------------

\* do_beg without the assignment to begdoc
do_beg_unmarked(state, bare) ==
  IF bare THEN Res(state, <<>>)
  ELSE IF ~state.begdoc
  THEN Res(state,
           (IF state.tpage
            THEN <<Frag("title", state.title),
                   Frag("author", state.author \o <<"|">> \o state.affiliation),
                   Frag("date", state.doc_date)>>
            ELSE <<>>)
           \o <<Frag("docbegin", <<>>)>>
           \o (IF state.tpage THEN <<Frag("maketitle", <<>>)>> ELSE <<>>)
           \o <<Frag("toc", <<>>), Frag("newpage", <<>>)>>)
  ELSE Res(state, <<>>)

do_beg(state, bare) ==
  IF bare THEN Res(state, <<>>)
  ELSE IF ~state.begdoc
  THEN Res([state EXCEPT !.begdoc = TRUE],
           (IF state.tpage
            THEN <<Frag("title", state.title),
                   Frag("author", state.author \o <<"|">> \o state.affiliation),
                   Frag("date", state.doc_date)>>
            ELSE <<>>)
           \o <<Frag("docbegin", <<>>)>>
           \o (IF state.tpage THEN <<Frag("maketitle", <<>>)>> ELSE <<>>)
           \o <<Frag("toc", <<>>), Frag("newpage", <<>>)>>)
  ELSE Res(state, <<>>)

\* do_boc without the assignment to prologue
do_boc_in_prologue(state, lang_name) ==
  Res([state EXCEPT !.first = FALSE, !.source = TRUE, !.verb = TRUE],
      <<Frag("comment", <<"START CODE">>),
        Frag("vbegin", <<"breakafter", lang_name>>)>>)

do_boc(state, lang_name) ==
  Res([state EXCEPT !.first = FALSE, !.prologue = FALSE,
                    !.source = TRUE, !.verb = TRUE],
      <<Frag("comment", <<"START CODE">>),
        Frag("vbegin", <<"breakafter", lang_name>>)>>)

\* do_eoc without the test of verb
do_eoc_unguarded(state) ==
  Res([state EXCEPT !.verb = FALSE, !.source = FALSE],
      <<Frag("vend", <<>>), Frag("comment", <<"END CODE">>)>>)

do_eoc(state) ==
  Res([state EXCEPT !.verb = FALSE, !.source = FALSE],
      (IF state.verb THEN <<Frag("vend", <<>>)>> ELSE <<>>)
      \o <<Frag("comment", <<"END CODE">>)>>)

\* have_name, have_desc, have_intf, have_hist and name_is are written here
\* and by the field rules and are read nowhere in the program: the state of
\* the model leaves these five entries out
set_missing(state) == state

\* ------------------------------------------------------------------------
\* Heading rules of the primary field markers
\* ------------------------------------------------------------------------

\* s.replace(old, "") : every non-overlapping occurrence, left to right
RECURSIVE remove(_, _)
remove(s, old) ==
  IF s = <<>> THEN <<>>
  ELSE IF startswith(s, old) THEN remove(Drop(s, Len(old)), old)
  ELSE <<Head(s)>> \o remove(Tail(s), old)

get_format(fmt, remove_source) ==
  IF remove_source THEN remove(fmt, sSourceFileRef) ELSE fmt

\* template % args : the placeholders take the arguments in order
RECURSIVE percent(_, _)
percent(template, args) ==
  IF template = <<>> THEN <<>>
  ELSE IF startswith(template, <<"%", "s">>) /\ args # <<>>
       THEN Head(args) \o percent(Drop(template, 2), Tail(args))
       ELSE <<Head(template)>> \o percent(Tail(template), args)

process_generic(fields, latex_template, file_basename, opts, state) ==
  LET template == get_format(latex_template, opts.f)
      content  == escapeUnderscore(join(fields))
  IN Res([state EXCEPT !.not_first = TRUE],
         (IF opts.n /\ state.not_first THEN <<Frag("newpage", <<>>)>> ELSE <<>>)
         \o <<Frag("heading",
                   IF ~opts.f THEN percent(template, <<content, file_basename>>)
                   ELSE percent(template, <<content>>))>>)

process_internal(fields, file_basename, opts, state) ==
  LET content     == escapeUnderscore(join(fields))
      words       == split(content)
      short_label == IF Len(words) > 1 THEN words[2] ELSE <<>>
  IN Res(state,
         <<Frag("heading", percent(tplInternal, <<short_label, content>>))>>)

process_overloaded(fields, file_basename, opts, state) ==
  LET content     == escapeUnderscore(join(fields))
      words       == split(content)
      short_label == IF Len(words) > 1 THEN join(Drop(words, 1)) ELSE <<>>
  IN Res(state,
         <<Frag("heading", percent(tplInternal, <<short_label, content>>))>>)

process_contained(fields, file_basename, opts, state) ==
  LET content     == escapeUnderscore(join(fields))
      words       == split(content)
      short_label == IF Len(words) > 1 THEN words[2] ELSE <<>>
  IN Res(state,
         <<Frag("heading", percent(tplInternal, <<short_label, content>>))>>)

\* the keys of get_prologue_processors(opts)
prologue_markers ==
  {sMODULE, sPROGRAM, sROUTINE, sFUNCTION,
   sIROUTINE, sIFUNCTION, sIIROUTINE, sCROUTINE}

\* prologue_processors[marker](fields, file_basename, opts, state)
prologue_processors(marker, fields, fb, opts, state) ==
  LET remove_source == opts.f IN
  CASE marker = sMODULE ->
         process_generic(fields, get_format(tplModule, remove_source), fb, opts, state)
    [] marker = sPROGRAM ->
         process_generic(fields, get_format(tplProgram, remove_source), fb, opts, state)
    [] marker = sROUTINE ->
         process_generic(fields, get_format(tplRoutine, remove_source), fb, opts, state)
    [] marker = sFUNCTION ->
         process_generic(fields, tplRoutine, fb, opts, state)
    [] marker \in {sIROUTINE, sIFUNCTION} ->
         process_internal(fields, fb, opts, state)
    [] marker = sIIROUTINE ->
         process_overloaded(fields, fb, opts, state)
    [] marker = sCROUTINE ->
         process_contained(fields, fb, opts, state)

\* ------------------------------------------------------------------------
\* Resource rows
\* ------------------------------------------------------------------------

\* [p.strip() for p in line.split(',')]
stripAll(parts) == [i \in 1..Len(parts) |-> strip(parts[i])]

\* process_resource_line without the strip of the parts
process_resource_line_untrimmed(line) ==
  LET parts == splitComma(line) IN
  IF Len(parts) >= 4
  THEN <<Frag("row", parts[1] \o <<"&">> \o parts[2] \o <<"&">>
                     \o parts[3] \o <<"&">> \o parts[4]),
         Frag("hline", <<>>)>>
  ELSE <<Frag("text", line)>>

process_resource_line(line) ==
  LET parts == stripAll(splitComma(line)) IN
  IF Len(parts) >= 4
  THEN <<Frag("row", parts[1] \o <<"&">> \o parts[2] \o <<"&">>
                     \o parts[3] \o <<"&">> \o parts[4]),
         Frag("hline", <<>>)>>
  ELSE <<Frag("text", line)>>

\* ------------------------------------------------------------------------
\* process_file: one iteration of the loop over the lines
\* ------------------------------------------------------------------------

\* marker index: 1 when the line starts with the bare comment symbol
marker_index(fields, tokens) ==
  IF fields # <<>> /\ fields[1] = tokens.comment THEN 1 ELSE 0

\* the title-page fields of an introduction; fields[mi+1] is the marker
intro_markers == {sTITLE, sAUTHORS, sAFFILIATION, sDATE, sINTRODUCTION}

intro_data(fields, mi, state, opts) ==
  LET marker == fields[mi + 2]
      rest   == join(Drop(fields, mi + 1))
  IN
  CASE marker = sTITLE ->
         Res([state EXCEPT !.title = rest, !.tpage = TRUE], <<>>)
    [] marker = sAUTHORS ->
         Res([state EXCEPT !.author = rest, !.tpage = TRUE], <<>>)
    [] marker = sAFFILIATION ->
         Res([state EXCEPT !.affiliation = rest, !.tpage = TRUE], <<>>)
    [] marker = sDATE ->
         Res([state EXCEPT !.doc_date = rest, !.tpage = TRUE], <<>>)
    [] marker = sINTRODUCTION ->
         LET b == do_beg(state, opts.bare) IN
         Res(b.st, b.out \o <<Frag("comment", <<"....">>), Frag("section", rest)>>)

\* !BOP, and !BOPI outside internal mode
begin_prologue(state, opts) ==
  LET c == IF state.source THEN do_eoc(state) ELSE Res(state, <<>>)
      b == do_beg(c.st, opts.bare)
      sep == IF ~b.st.first THEN <<Frag("hrule", <<>>)>>
             ELSE IF ~opts.bare /\ ~(opts.g \/ opts.M)
                  THEN <<Frag("prologues", <<>>)>>
                  ELSE <<>>
  IN Res(set_missing([b.st EXCEPT !.first = FALSE, !.prologue = TRUE,
                                  !.verb = FALSE, !.source = FALSE]),
         c.out \o b.out \o sep)

\* !BOPI in internal mode, without the assignment to prologue
skip_internal_kept(state) == Res(state, <<>>)

\* !BOPI in internal mode
skip_internal(state) == Res([state EXCEPT !.prologue = FALSE], <<>>)

\* the marker a prologue line is dispatched on
prologue_marker(fields) == IF Len(fields) > 1 THEN fields[2] ELSE fields[1]

\* description with the test of opts.nolatex negated
description_swapped(parts, state, lang_name, opts) ==
  LET closed == IF state.verb
                THEN <<Frag("vend", <<>>), Frag("label_sf", Tail(sDESCRIPTION)),
                       Frag("blank", <<>>)>>
                ELSE <<>>
      start  == IF parts[1] = <<"!">> THEN 1 ELSE 0
  IN
  IF ~opts.nolatex
  THEN Res([state EXCEPT !.verb = TRUE],
           closed \o <<Frag("vbegin", <<lang_name>>)>>)
  ELSE Res([state EXCEPT !.verb = FALSE],
           closed \o <<Frag("text", join(Drop(parts, start + 1)))>>)

\* a line with !DESCRIPTION: in an open prologue
description(parts, state, lang_name, opts) ==
  LET closed == IF state.verb
                THEN <<Frag("vend", <<>>), Frag("label_sf", Tail(sDESCRIPTION)),
                       Frag("blank", <<>>)>>
                ELSE <<>>
      start  == IF parts[1] = <<"!">> THEN 1 ELSE 0
  IN
  IF opts.nolatex
  THEN Res([state EXCEPT !.verb = TRUE],
           closed \o <<Frag("vbegin", <<lang_name>>)>>)
  ELSE Res([state EXCEPT !.verb = FALSE],
           closed \o <<Frag("text", join(Drop(parts, start + 1)))>>)

\* the first key of opts.keys that the line contains, 0 when there is none
\* the last key of opts.keys that the line contains
first_key_last(keys, line) ==
  IF \E i \in 1..Len(keys) : Contains(keys[i], line)
  THEN CHOOSE i \in 1..Len(keys) :
         /\ Contains(keys[i], line)
         /\ \A j \in (i + 1)..Len(keys) : ~Contains(keys[j], line)
  ELSE 0

first_key(keys, line) ==
  IF \E i \in 1..Len(keys) : Contains(keys[i], line)
  THEN CHOOSE i \in 1..Len(keys) :
         /\ Contains(keys[i], line)
         /\ \A j \in 1..(i - 1) : ~Contains(keys[j], line)
  ELSE 0

\* any(x in line for x in ["USES", "INPUT", ...])
any_em_word(line) == \E i \in 1..Len(em_words) : Contains(em_words[i], line)

\* a line with an optional keyword in an open prologue
keyword(key, em, state, lang_name) ==
  LET label == Tail(key)
  IN Res([state EXCEPT !.verb = TRUE],
         (IF state.verb THEN <<Frag("vend", <<>>)>> ELSE <<Frag("bigskip", <<>>)>>)
         \o <<Frag(IF em THEN "label_em" ELSE "label_sf", label),
              Frag("vbegin", <<lang_name>>)>>)

\* !EOP or !EOPI without the test of verb
end_prologue_unguarded(state) ==
  Res([state EXCEPT !.verb = FALSE, !.prologue = FALSE],
      <<Frag("vend", <<>>)>>)

\* !EOP or !EOPI in an open prologue
end_prologue(state) ==
  Res([state EXCEPT !.verb = FALSE, !.prologue = FALSE],
      IF state.verb THEN <<Frag("vend", <<>>)>> ELSE <<>>)

\* !BOE
begin_example(state) ==
  LET c == IF state.source THEN do_eoc(state) ELSE Res(state, <<>>) IN
  Res([c.st EXCEPT !.first = FALSE, !.prologue = TRUE,
                   !.verb = FALSE, !.source = FALSE],
      c.out \o <<Frag("comment", <<"////">>)>>)

\* !EOE
end_example(state) ==
  Res([state EXCEPT !.verb = FALSE, !.prologue = FALSE],
      IF state.verb THEN <<Frag("vend", <<>>)>> ELSE <<>>)

\* the lines of the loop body after the prologue block: code and example
\* markers, then the text of a prologue or introduction, then source text
after_prologue(raw_line, line, fields, mi, state, tokens, lang_name, opts) ==
  LET fmi == fields[mi + 1] IN
  IF fmi = tokens.boc
  THEN (IF opts.s THEN Res([state EXCEPT !.prologue = FALSE], <<>>)
        ELSE do_boc(state, lang_name))
  ELSE IF fmi = tokens.eoc THEN do_eoc(state)
  ELSE IF fmi = tokens.boe THEN begin_example(state)
  ELSE IF fmi = tokens.eoe THEN end_example(state)
  ELSE IF state.prologue \/ state.intro
  THEN Res(state,
           <<Frag("text", IF startswith(line, tokens.comment)
                          THEN Drop(line, Len(tokens.comment)) ELSE line)>>)
  ELSE IF state.source THEN Res(state, <<Frag("text", raw_line)>>)
  ELSE Res(state, <<>>)

\* what an iteration computes from the line alone: the stripped line, its
\* fields, its resource row, and the substring tests of the prologue block
\* (opts.keys is the default list)
line_facts(input) ==
  LET raw_line == rstrip(input)
      line     == lstrip(raw_line)
      key      == first_key(default_keys, line)
  IN [input |-> input, raw_line |-> raw_line, line |-> line,
      fields |-> split(line),
      row |-> process_resource_line(line),
      has_description |-> Contains(sDESCRIPTION, line),
      key |-> key,
      em |-> any_em_word(line)]

\* the prologue block: field markers in their order of recognition
in_prologue(p, mi, file_basename, state, tokens, lang_name, opts) ==
  LET marker == prologue_marker(p.fields) IN
  IF marker \in prologue_markers
  THEN prologue_processors(marker, Drop(p.fields, mi + 1), file_basename, opts, state)
  ELSE IF p.has_description
  THEN description(p.fields, state, lang_name, opts)
  ELSE IF p.key # 0 THEN keyword(default_keys[p.key], p.em, state, lang_name)
  ELSE IF p.fields[mi + 1] \in {tokens.eop, tokens.eopi} THEN end_prologue(state)
  ELSE after_prologue(p.raw_line, p.line, p.fields, mi, state, tokens, lang_name, opts)

\* !EOR, clearing prologue as well
end_resource_all(state) ==
  Res([state EXCEPT !.resource = FALSE, !.prologue = FALSE], <<>>)

\* !EOR in resource-table mode
end_resource(state) == Res([state EXCEPT !.resource = FALSE], <<>>)

\* !QUOTE: printing the whole line
quote_whole(fields, mi, state) == Res(state, <<Frag("text", join(fields))>>)

\* !QUOTE:
quote(fields, mi, state) ==
  Res(state, <<Frag("text", join(Drop(fields, mi + 1)))>>)

\* p is line_facts of the line read
process_line(p, file_basename, state, tokens, lang_name, opts) ==
  LET line   == p.line
      fields == p.fields
      mi     == marker_index(fields, tokens)
  IN
  IF Len(fields) <= mi THEN Res(state, <<>>)
  ELSE IF state.resource
  THEN (IF fields[mi + 1] = tokens.eor
        THEN end_resource(state)
        ELSE Res(state, p.row))
  ELSE IF fields[mi + 1] = sQUOTE
  THEN quote(fields, mi, state)
  ELSE IF fields[mi + 1] = tokens.boi
  THEN Res([state EXCEPT !.intro = TRUE], <<>>)
  ELSE IF state.intro /\ Len(fields) > mi + 1 /\ fields[mi + 2] \in intro_markers
  THEN intro_data(fields, mi, state, opts)
  ELSE IF fields[mi + 1] = tokens.eoi
  THEN Res([state EXCEPT !.intro = FALSE],
           <<Frag("comment", <<"////">>), Frag("newpage", <<>>)>>)
  ELSE IF fields[mi + 1] = tokens.bor
  THEN Res([state EXCEPT !.resource = TRUE], <<Frag("table", <<>>)>>)
  ELSE IF fields[mi + 1] = tokens.bop
  THEN begin_prologue(state, opts)
  ELSE IF fields[mi + 1] = tokens.bopi
  THEN (IF opts.internal THEN skip_internal(state)
        ELSE begin_prologue(state, opts))
  ELSE IF state.prologue
  THEN in_prologue(p, mi, file_basename, state, tokens, lang_name, opts)
  ELSE after_prologue(p.raw_line, line, fields, mi, state, tokens, lang_name, opts)

\* ------------------------------------------------------------------------
\* Inputs: the lines a file may hold (Fortran markers) and the file names
\* ------------------------------------------------------------------------

L_bop == <<"!", "B", "O", "P">>
L_eop == <<"!", "E", "O", "P">>
L_bopi == <<"!", "B", "O", "P", "I">>
L_eopi == <<"!", "E", "O", "P", "I">>
L_boi == <<"!", "B", "O", "I">>
L_eoi == <<"!", "E", "O", "I">>
L_boc == <<"!", "B", "O", "C">>
L_eoc == <<"!", " ", "!", "E", "O", "C">>
L_boe == <<"!", "B", "O", "E">>
L_eoe == <<"!", "E", "O", "E">>
L_bor == <<"!", "B", "O", "R">>
L_eor == <<"!", "E", "O", "R">>
L_routine == <<"!", "R", "O", "U", "T", "I", "N", "E", ":", " ", "f", "o", "o", "_", "b", "a", "r">>
L_routine2 ==
  <<"!", " ", "!", "R", "O", "U", "T", "I", "N", "E", ":", " ", "f", "o", "o", "_", "b", "a",
    "r">>
L_function == <<"!", " ", "!", "F", "U", "N", "C", "T", "I", "O", "N", ":", " ", "f">>
L_module == <<"!", "M", "O", "D", "U", "L", "E", ":">>
L_program == <<"!", " ", "!", "P", "R", "O", "G", "R", "A", "M", ":", " ", "p">>
L_iroutine ==
  <<"!", " ", "!", "I", "R", "O", "U", "T", "I", "N", "E", ":", " ", "a", " ", "b", "_", "c">>
L_iiroutine ==
  <<"!", " ", "!", "I", "I", "R", "O", "U", "T", "I", "N", "E", ":", " ", "a", " ", "b", " ",
    "c">>
L_croutine == <<"!", " ", "!", "C", "R", "O", "U", "T", "I", "N", "E", ":", " ", "a", " ", "b">>
L_description ==
  <<"!", "D", "E", "S", "C", "R", "I", "P", "T", "I", "O", "N", ":", " ", "d", "o", "e", "s",
    " ", "a", " ", "t", "h", "i", "n", "g">>
L_interface == <<"!", "I", "N", "T", "E", "R", "F", "A", "C", "E", ":">>
L_uses == <<"!", " ", "!", "U", "S", "E", "S", ":">>
L_history ==
  <<"!", "R", "E", "V", "I", "S", "I", "O", "N", " ", "H", "I", "S", "T", "O", "R", "Y", ":">>
L_remarks ==
  <<"!", "R", "E", "M", "A", "R", "K", "S", ":", " ", "s", "e", "e", " ", "I", "N", "P", "U",
    "T">>
L_eop_uses == <<"!", "E", "O", "P", " ", "!", "U", "S", "E", "S", ":">>
L_routine_uses ==
  <<"!", "R", "O", "U", "T", "I", "N", "E", ":", " ", "f", " ", "!", "U", "S", "E", "S", ":">>
L_routine_all ==
  <<"!", " ", "!", "R", "O", "U", "T", "I", "N", "E", ":", " ", "f", " ", "!", 
    "D", "E", "S", "C", "R", "I", "P", "T", "I", "O", "N", ":", " ", "!", "U", "S", "E", "S", ":">>
L_eop_desc_uses ==
  <<"!", "E", "O", "P", " ", "!", "D", "E", "S", "C", "R", "I", "P", "T", "I", "O", "N", ":", " ", 
    "!", "U", "S", "E", "S", ":">>
L_bugs_uses == <<"!", "B", "U", "G", "S", ":", " ", "!", "U", "S", "E", "S", ":">>
L_quote == <<"!", "Q", "U", "O", "T", "E", ":", " ", "a", " ", " ", "b">>
L_title == <<"x", " ", "!", "T", "I", "T", "L", "E", ":", " ", "T">>
L_introduction ==
  <<"x", " ", "!", "I", "N", "T", "R", "O", "D", "U", "C", "T", "I", "O", "N", ":", " ", "I">>
L_row4 == <<"a", ",", " ", "b", ",", "c", " ", ",", " ", "d">>
L_row2 == <<"a", ",", " ", "b">>
L_text == <<"d", "o", "e", "s", " ", "a", " ", "t", "h", "i", "n", "g">>
L_comment == <<"!", "a", " ", "n", "o", "t", "e">>
L_code == <<" ", " ", "x", " ", "=", " ", "1", " ">>
L_empty == <<>>
L_bare == <<"!">>

Lines ==
  {L_bop, L_eop, L_bopi, L_eopi, L_boi, L_eoi,
   L_boc, L_eoc, L_boe, L_eoe, L_bor, L_eor,
   L_routine, L_routine2, L_function, L_module, L_program, L_iroutine,
   L_iiroutine, L_croutine, L_description, L_interface, L_uses, L_history,
   L_remarks, L_eop_uses, L_bugs_uses, L_routine_uses, L_routine_all,
   L_eop_desc_uses, L_quote, L_title, L_introduction, L_row4,
   L_row2, L_text, L_comment, L_code, L_empty, L_bare}

F_stdin == <<"-">>
F_path == <<"d", "/", "m", "_", "t", ".", "f">>

\* opts.files: the i-th file of the command line
files(i) == IF i % 2 = 1 THEN F_path ELSE F_stdin

\* the language codes of a run: -F and -S
LangCodes == {"F", "S"}

\* at most MaxFiles files on the command line
MaxFiles == 2

\* no line is read that leaves more than MaxBalance verbatim blocks open
MaxBalance == 2

\* at most MaxSwitches switches are given on the command line
MaxSwitches == 1

\* ------------------------------------------------------------------------
\* The run: main() and process_file()
\* ------------------------------------------------------------------------

VARIABLES
  opts,           \* the parsed command line
  lang,           \* the language code of the run
  state,          \* the document state dictionary, shared by all files
  pc,             \* "main": between files, "file": in the loop, "done"
  file_basename,  \* process_file's local: the escaped name of the file
  nfiles,         \* files opened so far
  emit,           \* the kinds of the fragments printed by the last step
  balance,        \* verbatim-begin minus verbatim-end fragments printed so far
  pending,        \* begin markers read in this file with no end marker since
                  \* (recorded by ReadRegionLine, left empty by ReadLine)
  call            \* a call of get_language_tokens made on its own: the code
                  \* passed, the role looked up, and what came back

vars ==
  <<opts, lang, state, pc, file_basename, nfiles, emit, balance, pending,
    call>>

\* get_language_tokens(lang) and get_language_info(lang, "lang"), which main
\* and process_file compute once
language_tokens == [code \in LangCodes |-> get_language_tokens(code).val]

language_names == [code \in LangCodes |-> get_language_info(code, "lang").val]

tokens == language_tokens[lang]

lang_name == language_names[lang]

\* the switches of the command line (-M is left off: it acts as -g does)
Switches == {"bare", "g", "n", "s", "nolatex", "f", "internal"}

Options ==
  {[bare |-> "bare" \in on, g |-> "g" \in on, M |-> FALSE, n |-> "n" \in on,
    s |-> "s" \in on, nolatex |-> "nolatex" \in on, f |-> "f" \in on,
    internal |-> "internal" \in on] :
     on \in {x \in SUBSET Switches : Cardinality(x) <= MaxSwitches}}

initial_state ==
  [intro |-> FALSE, prologue |-> FALSE, first |-> TRUE, source |-> FALSE,
   verb |-> FALSE, tpage |-> FALSE, begdoc |-> FALSE, not_first |-> FALSE,
   title |-> <<>>, author |-> <<>>,
   affiliation |-> <<>>, doc_date |-> <<>>, resource |-> FALSE]

\* how many fragments of kind k an output holds
Count(out, k) == Cardinality({i \in 1..Len(out) : out[i].k = k})

Has(out, k) == \E i \in 1..Len(out) : out[i].k = k

\* the kinds of the fragments of an output, in order
Kinds(out) == [i \in 1..Len(out) |-> out[i].k]

\* how many fragments of kind k a sequence of kinds holds
CountKind(kinds, k) == Cardinality({i \in 1..Len(kinds) : kinds[i] = k})

HasKind(kinds, k) == \E i \in 1..Len(kinds) : kinds[i] = k

\* the region a marker token begins or ends
begin_kind(m, tk) ==
  CASE m = tk.bop  -> "P"  [] m = tk.bopi -> "PI"
    [] m = tk.boc  -> "C"  [] m = tk.boe  -> "E"
    [] m = tk.boi  -> "I"  [] m = tk.bor  -> "R"
    [] OTHER -> "none"

end_kind(m, tk) ==
  CASE m = tk.eop  -> "P"  [] m = tk.eopi -> "PI"
    [] m = tk.eoc  -> "C"  [] m = tk.eoe  -> "E"
    [] m = tk.eoi  -> "I"  [] m = tk.eor  -> "R"
    [] OTHER -> "none"

\* the marker token of a line, <<>> when it has none
marker_token(p, tk) ==
  LET mi == marker_index(p.fields, tk)
  IN IF Len(p.fields) <= mi THEN <<>> ELSE p.fields[mi + 1]

Pending(p, tk, pend) ==
  LET m == marker_token(p, tk) IN
  IF begin_kind(m, tk) # "none" THEN pend \cup {begin_kind(m, tk)}
  ELSE pend \ {end_kind(m, tk)}

\* the lines of the input with what an iteration computes from each alone
LineFacts == {line_facts(input) : input \in Lines}

\* no call of get_language_tokens on its own is in progress
no_call ==
  [code |-> "", role |-> "", done |-> FALSE, raised |-> FALSE, val |-> <<>>]

Init ==
  /\ opts \in Options
  /\ lang \in LangCodes
  /\ state = initial_state
  /\ pc = "main"
  /\ file_basename = <<>>
  /\ nfiles = 0
  /\ emit = <<"notice">> \o (IF ~opts.bare THEN <<"preamble">> ELSE <<>>)
            \o <<"macros">>
  /\ balance = 0
  /\ pending = {}
  /\ call = no_call

\* main calls process_file, which prints the page header
OpenFile ==
  /\ pc = "main"
  /\ nfiles < MaxFiles
  /\ pc' = "file"
  /\ nfiles' = nfiles + 1
  /\ LET filename == files(nfiles') IN
     file_basename' = escapeUnderscore(IF filename # F_stdin
                                       THEN basename(filename)
                                       ELSE sStandardInput)
  /\ emit' = IF ~(opts.g \/ opts.M) THEN <<"markboth">> ELSE <<>>
  /\ pending' = {}
  /\ UNCHANGED <<opts, lang, state, balance, call>>

\* what the loop does with line p in the current state
step(p) == process_line(p, file_basename, state, tokens, lang_name, opts)

\* one iteration of the loop over the lines of the file
Read(p) ==
  /\ pc = "file"
  /\ LET r == step(p) IN
     /\ state' = r.st
     /\ emit' = Kinds(r.out)
     /\ balance' = balance + Count(r.out, "vbegin") - Count(r.out, "vend")
  /\ balance' <= MaxBalance
  /\ UNCHANGED <<opts, lang, pc, file_basename, nfiles, call>>

ReadLine(p) == Read(p) /\ UNCHANGED pending

\* the end of a file, closing the open prologue as well
EndOfFileResetting ==
  /\ pc = "file"
  /\ LET r == IF state.source THEN do_eoc(state) ELSE Res(state, <<>>) IN
     /\ state' = [r.st EXCEPT !.prologue = FALSE]
     /\ emit' = <<"blank">> \o Kinds(r.out)
     /\ balance' = balance + Count(r.out, "vbegin") - Count(r.out, "vend")
  /\ pc' = "main"
  /\ file_basename' = <<>>
  /\ UNCHANGED <<opts, lang, nfiles, pending, call>>

\* the end of the file: a source region still open is closed
EndOfFile ==
  /\ pc = "file"
  /\ LET r == IF state.source THEN do_eoc(state) ELSE Res(state, <<>>) IN
     /\ state' = r.st
     /\ emit' = <<"blank">> \o Kinds(r.out)
     /\ balance' = balance + Count(r.out, "vbegin") - Count(r.out, "vend")
  /\ pc' = "main"
  /\ file_basename' = <<>>
  /\ UNCHANGED <<opts, lang, nfiles, pending, call>>

\* all files are processed: the document is closed
EndRun ==
  /\ pc = "main"
  /\ nfiles >= 1
  /\ pc' = "done"
  /\ emit' = IF ~opts.bare THEN <<"docend">> ELSE <<>>
  /\ UNCHANGED <<opts, lang, state, file_basename, nfiles, balance, pending,
                 call>>

Next ==
  \/ OpenFile
  \/ \E p \in LineFacts : ReadLine(p)
  \/ EndOfFile
  \/ EndRun

Spec == Init /\ [][Next]_vars

\* ------------------------------------------------------------------------
\* Files of region markers, with the record of the regions left open
\* ------------------------------------------------------------------------

\* the lines that are a region marker alone, a keyword line and two lines
\* of content
RegionLines ==
  {line_facts(input) :
     input \in {L_bop, L_eop, L_bopi, L_eopi, L_boi, L_eoi, L_boc, L_eoc,
                L_boe, L_eoe, L_bor, L_eor, L_interface, L_text, L_code}}

ReadRegionLine(p) == Read(p) /\ pending' = Pending(p, tokens, pending)

InitRegions ==
  /\ Init
  /\ lang = "F"
  /\ \A sw \in Switches \ {"s", "internal"} :
        opts = [opts EXCEPT ![sw] = FALSE]

NextRegions ==
  \/ OpenFile
  \/ \E p \in RegionLines : ReadRegionLine(p)
  \/ EndOfFile
  \/ EndRun

SpecRegions == InitRegions /\ [][NextRegions]_vars

\* ------------------------------------------------------------------------
\* Properties
\* ------------------------------------------------------------------------

\* a line is being read
InFile == pc = "file"

\* the index of the marker token of line p, less one
mi_of(p) == marker_index(p.fields, tokens)

\* the lines that consist of a marker token alone
BareMarkerLines == {p \in LineFacts : Len(p.fields) = mi_of(p) + 1}

\* two lines of content that hold no marker
ContentLines == {line_facts(L_code), line_facts(L_text)}

\* the text of the heading fragment of an output
heading_text(out) == out[CHOOSE i \in 1..Len(out) : out[i].k = "heading"].t

\* C1: over a file in which every begin marker is followed by its matching
\* end marker before the end of the file, as many verbatim-begin fragments
\* are printed as verbatim-end fragments (the first file of a run, whose
\* counts are the counts of the run so far)
C1_VerbatimBalanced ==
  (pc = "main" /\ nfiles = 1 /\ pending = {}) => balance = 0

\* C2: after every line the flags (prologue, source, verb) are one of the
\* four combinations of the state table
C2_FlagTable ==
  <<state.prologue, state.source, state.verb>> \in
    {<<TRUE, FALSE, FALSE>>, <<TRUE, FALSE, TRUE>>,
     <<FALSE, TRUE, TRUE>>, <<FALSE, FALSE, FALSE>>}

\* C3: in an open prologue every line whose marker token is a primary field
\* marker followed by a name prints that marker's heading, and is not
\* printed as plain prologue text
C3_PrimaryMarkerHeading ==
  (InFile /\ state.prologue /\ ~state.resource) =>
    \A p \in LineFacts :
      (/\ marker_token(p, tokens) \in prologue_markers
       /\ Len(p.fields) > mi_of(p) + 1)
      => (Has(step(p).out, "heading") /\ ~Has(step(p).out, "text"))

\* C4: whenever source is true when the input of a file ends, the end of
\* the file prints exactly one verbatim-end fragment and leaves source false
C4_EndOfFileCloses ==
  [][(pc = "file" /\ pc' = "main" /\ state.source)
       => (CountKind(emit', "vend") = 1 /\ ~state'.source)]_vars

\* the lines whose marker token is a code-end, example-end, prologue-end or
\* internal-prologue-end marker
EndMarkerLines ==
  {p \in LineFacts :
     end_kind(marker_token(p, tokens), tokens) \in {"C", "E", "P", "PI"}}

\* C5: an end marker read while verb is false prints no verbatim-end
\* fragment; a prologue-end marker read while prologue is false changes no
\* state entry; and an end marker read twice in a row (a line that holds no
\* keyword, which would make it a keyword field) prints at most one
\* verbatim-end fragment in all
C5_IdempotentCloses ==
  InFile =>
    \A p \in EndMarkerLines :
      LET r1 == step(p)
          r2 == process_line(p, file_basename, r1.st, tokens, lang_name, opts)
      IN /\ ~state.verb => ~Has(r1.out, "vend")
         /\ (marker_token(p, tokens) = tokens.eop /\ ~state.prologue)
              => r1.st = state
         /\ p.key = 0 => Count(r1.out, "vend") + Count(r2.out, "vend") <= 1

\* an end marker has just closed a verbatim block: the same marker read
\* again finds verb false
C5_ClosedOnce ==
  InFile /\ emit = <<"vend">> /\ ~state.verb /\ ~state.prologue

\* C6: an end marker read while no region is open (introduction, prologue,
\* code and resource table all closed) changes no state entry and prints
\* nothing
C6_UnmatchedEndNoEffect ==
  (InFile /\ ~state.intro /\ ~state.prologue /\ ~state.source
          /\ ~state.resource) =>
    \A p \in BareMarkerLines :
      end_kind(marker_token(p, tokens), tokens) \in {"I", "C", "E", "P", "R"}
      => step(p) = Res(state, <<>>)

\* the kinds of the fragments of the document-begin sequence, the page
\* break apart
DocBeginKinds == {"title", "author", "date", "docbegin", "maketitle", "toc"}

\* C7: once begdoc is true it stays true and no step prints a fragment of
\* the document-begin sequence; the step that prints \begin{document}
\* prints it once, was taken with begdoc false and sets it
C7_DocumentBegunOnce ==
  [][/\ state.begdoc =>
          (state'.begdoc /\ \A k \in DocBeginKinds : ~HasKind(emit', k))
     /\ HasKind(emit', "docbegin") =>
          (/\ ~state.begdoc
           /\ state'.begdoc
           /\ CountKind(emit', "docbegin") = 1)]_vars

\* a prologue begins in the second file of a run whose document is begun:
\* the separator is printed and the document-begin sequence is not
C7_SecondFilePrologue ==
  /\ InFile
  /\ nfiles = 2
  /\ state.begdoc
  /\ HasKind(emit, "hrule")
  /\ ~HasKind(emit, "docbegin")

\* the kinds of the fragments of a prologue region
PrologueKinds ==
  {"hrule", "prologues", "heading", "label_sf", "label_em", "bigskip", "vbegin"}

NoPrologueFragment(out) == \A i \in 1..Len(out) : out[i].k \notin PrologueKinds

\* C8: in internal mode a !BOPI line (read as a marker, so outside a
\* resource table) leaves prologue false whatever the state, and from then
\* on every line that is not a region-begin marker leaves prologue false;
\* none of these lines prints a fragment of a prologue region
C8_InternalPrologueSkipped ==
  (InFile /\ opts.internal) =>
    \A p \in LineFacts :
      /\ (marker_token(p, tokens) = tokens.bopi /\ ~state.resource)
           => (~step(p).st.prologue /\ NoPrologueFragment(step(p).out))
      /\ (~state.prologue /\ begin_kind(marker_token(p, tokens), tokens) = "none")
           => (~step(p).st.prologue /\ NoPrologueFragment(step(p).out))

\* in internal mode !BOPI was read while a field of a prologue was open:
\* the prologue is closed and its verbatim block is not
C8_SkippedOpenField ==
  /\ InFile
  /\ opts.internal
  /\ ~state.prologue
  /\ ~state.source
  /\ state.verb
  /\ emit = <<>>

\* C9: in shut-up mode a code-begin marker prints no verbatim-begin fragment
\* and only clears the prologue flag, and a line of content read right
\* after it is not printed, whatever the state the marker is read in
C9_ShutUpHidesCode ==
  (InFile /\ opts.s /\ ~state.resource) =>
    \A p \in BareMarkerLines :
      marker_token(p, tokens) = tokens.boc =>
        /\ ~Has(step(p).out, "vbegin")
        /\ step(p).st = [state EXCEPT !.prologue = FALSE]
        /\ \A q \in ContentLines :
             process_line(q, file_basename, step(p).st, tokens, lang_name,
                          opts).out = <<>>

\* C10: the heading of !FUNCTION: holds the name of the source file whether
\* or not the file name is suppressed, and the headings of !MODULE:,
\* !PROGRAM: and !ROUTINE: hold it exactly when it is not suppressed
C10_FunctionKeepsFileName ==
  (InFile /\ state.prologue /\ ~state.resource) =>
    \A p \in LineFacts :
      p.fields # <<>> =>
        LET marker == prologue_marker(p.fields) IN
        /\ marker = sFUNCTION =>
             /\ Has(step(p).out, "heading")
             /\ Contains(file_basename, heading_text(step(p).out))
        /\ marker \in {sMODULE, sPROGRAM, sROUTINE} =>
             /\ Has(step(p).out, "heading")
             /\ Contains(file_basename, heading_text(step(p).out)) <=> ~opts.f

\* the lines that the prologue block handles as a description: they hold
\* !DESCRIPTION: and are not dispatched on a primary field marker
DescriptionLines ==
  {p \in LineFacts :
     /\ p.has_description
     /\ prologue_marker(p.fields) \notin prologue_markers}

\* the text of the text fragment of an output
text_of(out) == out[CHOOSE i \in 1..Len(out) : out[i].k = "text"].t

QuoteLines == {p \in LineFacts : marker_token(p, tokens) = sQUOTE}

\* a line without its first token
RECURSIVE skip_token(_)
skip_token(s) ==
  IF s = <<>> \/ IsSpace(Head(s)) THEN s ELSE skip_token(Tail(s))

\* what follows the marker token on line p, as written on the line
remainder(p) ==
  LET after == skip_token(p.line)
  IN lstrip(IF mi_of(p) = 1 THEN skip_token(lstrip(after)) ELSE after)

\* C12 as stated: in every reachable state, a resource table included, a
\* !QUOTE: line prints the remainder of the line unchanged and changes no
\* state entry
C12_QuoteAsStated ==
  InFile =>
    \A p \in QuoteLines :
      step(p) = Res(state, <<Frag("text", remainder(p))>>)

\* C12 amended: outside a resource table, in every reachable state (a code
\* region, an introduction and a prologue included), a !QUOTE: line prints
\* one line, the tokens after the marker joined by single blanks, and
\* changes no state entry
C12_QuoteJoined ==
  (InFile /\ ~state.resource) =>
    \A p \in QuoteLines :
      /\ step(p).st = state
      /\ Len(step(p).out) = 1
      /\ step(p).out[1].k = "text"
      /\ split(step(p).out[1].t) = Drop(p.fields, mi_of(p) + 1)
      /\ step(p).out[1].t = join(split(remainder(p)))

\* a field of a prologue is open and the line !QUOTE: a  b prints a b
C12_QuoteInField ==
  /\ InFile
  /\ state.prologue
  /\ state.verb
  /\ step(line_facts(L_quote)).out = <<Frag("text", <<"a", " ", "b">>)>>

\* the lines that hold a marker token: the loop skips the others
MarkedLines == {p \in LineFacts : Len(p.fields) > mi_of(p)}

\* C13: while resource is set, the resource-end marker clears resource,
\* changes nothing else and prints nothing; every other line that holds a
\* token, a region marker or not, changes no state entry and is printed as
\* a table row with its rule or as the line itself
C13_ResourceModeFrame ==
  (InFile /\ state.resource) =>
    \A p \in MarkedLines :
      IF marker_token(p, tokens) = tokens.eor
      THEN step(p) = Res([state EXCEPT !.resource = FALSE], <<>>)
      ELSE /\ step(p).st = state
           /\ \/ Kinds(step(p).out) = <<"row", "hline">>
              \/ step(p).out = <<Frag("text", p.line)>>

\* a line was passed through in resource-table mode while a field of a
\* prologue was open
C13_RowInOpenField ==
  /\ InFile
  /\ state.resource
  /\ state.prologue
  /\ state.verb
  /\ emit = <<"text">>

\* C14: in resource-table mode a line of at least four comma-separated
\* parts prints one row made of its first four parts, each stripped of
\* surrounding blanks, and then a rule; a line of fewer parts is printed
\* as it is, as one line
C14_ResourceRows ==
  (InFile /\ state.resource) =>
    \A p \in MarkedLines :
      marker_token(p, tokens) # tokens.eor =>
        LET parts == splitComma(p.line) IN
        IF Len(parts) >= 4
        THEN step(p).out =
               <<Frag("row", strip(parts[1]) \o <<"&">> \o strip(parts[2])
                             \o <<"&">> \o strip(parts[3]) \o <<"&">>
                             \o strip(parts[4])),
                 Frag("hline", <<>>)>>
        ELSE step(p).out = <<Frag("text", p.line)>>

\* a row and its rule were printed in resource-table mode, and the line
\* a, b,c , d gives the row of a, b, c and d
C14_RowPrinted ==
  /\ InFile
  /\ state.resource
  /\ emit = <<"row", "hline">>
  /\ step(line_facts(L_row4)).out[1].t = <<"a", "&", "b", "&", "c", "&", "d">>

\* ---------------------------------------------------------------------------
\* get_language_tokens called on its own, with any code

\* the codes passed: the six of language_info and four that are not in it
TokenCodes == DOMAIN language_info \cup {"X", "f", "", "FF"}

\* the marker roles of the dictionary get_language_tokens builds
TokenRoles ==
  {"bop", "eop", "boi", "eoi", "boc", "eoc", "boe", "eoe", "bor", "eor",
   "bopi", "eopi", "iiro", "cro", "program"}

InitTokens ==
  /\ opts = [bare |-> FALSE, g |-> FALSE, M |-> FALSE, n |-> FALSE,
             s |-> FALSE, nolatex |-> FALSE, f |-> FALSE, internal |-> FALSE]
  /\ lang = "F"
  /\ state = initial_state
  /\ pc = "call"
  /\ file_basename = <<>>
  /\ nfiles = 0
  /\ emit = <<>>
  /\ balance = 0
  /\ pending = {}
  /\ call \in {[code |-> c, role |-> r, done |-> FALSE, raised |-> FALSE,
                val |-> <<>>] : c \in TokenCodes, r \in TokenRoles}

\* get_language_tokens(code) is called and the marker of one role is read
\* from the dictionary it returns; a raised ValueError leaves no dictionary
LookupToken ==
  /\ pc = "call"
  /\ ~call.done
  /\ LET got == get_language_tokens(call.code) IN
     call' = [call EXCEPT !.done = TRUE,
                          !.raised = got.raised,
                          !.val = IF got.raised THEN <<>>
                                  ELSE got.val[call.role]]
  /\ UNCHANGED <<opts, lang, state, pc, file_basename, nfiles, emit, balance,
                 pending>>

NextTokens == LookupToken

SpecTokens == InitTokens /\ [][NextTokens]_vars

\* the fixed suffix of each marker role
role_suffix ==
  [bop     |-> <<"B", "O", "P">>,
   eop     |-> <<"E", "O", "P">>,
   boi     |-> <<"B", "O", "I">>,
   eoi     |-> <<"E", "O", "I">>,
   boc     |-> <<"B", "O", "C">>,
   eoc     |-> <<"E", "O", "C">>,
   boe     |-> <<"B", "O", "E">>,
   eoe     |-> <<"E", "O", "E">>,
   bor     |-> <<"B", "O", "R">>,
   eor     |-> <<"E", "O", "R">>,
   bopi    |-> <<"B", "O", "P", "I">>,
   eopi    |-> <<"E", "O", "P", "I">>,
   iiro    |-> <<"I", "I", "R", "O", "U", "T", "I", "N", "E", ":">>,
   cro     |-> <<"C", "R", "O", "U", "T", "I", "N", "E", ":">>,
   program |-> <<"P", "R", "O", "G", "R", "A", "M", ":">>]

\* C15: for each of the six supported codes F, A, C, S, G and P the marker of
\* every role is the language's comment symbol followed by the role's suffix;
\* for any other code the call fails with an error and returns no marker set
C15_MarkerSet ==
  call.done =>
     IF call.code \in {"F", "A", "C", "S", "G", "P"}
     THEN /\ ~call.raised
          /\ call.val = language_info[call.code].comment
                        \o role_suffix[call.role]
     ELSE /\ call.raised
          /\ call.val = <<>>

\* the internal-prologue-begin marker of GrADS has been looked up
C15_GradsInternalMarker ==
  /\ call.done
  /\ call.code = "G"
  /\ call.role = "bopi"
  /\ call.val = <<"*", "B", "O", "P", "I">>

\* C16: in every reachable state the intro flag and the prologue flag are
\* not both true, whatever the order of the markers read
C16_IntroPrologueExclusive == ~(state.intro /\ state.prologue)

\* what the loop does with line p in state st of the current file
step_from(p, st) == process_line(p, file_basename, st, tokens, lang_name, opts)

\* the file has been opened and no line of it has been read
FileJustOpened == InFile /\ emit = <<"markboth">>

\* the lines whose marker begins a prologue: !BOP, and !BOPI without
\* internal mode
PrologueBeginLines ==
  {p \in LineFacts :
     \/ marker_token(p, tokens) = tokens.bop
     \/ marker_token(p, tokens) = tokens.bopi /\ ~opts.internal}

\* the lines whose marker begins a code region or an example
CodeBeginLines ==
  {p \in LineFacts : marker_token(p, tokens) \in {tokens.boc, tokens.boe}}

\* the section header "Routine/Function Prologues" and no horizontal rule
SectionHeaderOnly(out) == Has(out, "prologues") /\ ~Has(out, "hrule")

\* a horizontal rule and no section header
RuleOnly(out) == Has(out, "hrule") /\ ~Has(out, "prologues")

\* C17: without bare and GEOS/MAPL mode, in each file the first
\* prologue-begin prints the section header and no horizontal rule, also
\* after a code-begin or example-begin or an earlier file, and the next
\* prologue-begin of the file prints a horizontal rule and no section header
C17_FirstPrologueHeader ==
  (FileJustOpened /\ ~opts.bare /\ ~(opts.g \/ opts.M) /\ ~state.resource) =>
    \A p \in PrologueBeginLines :
      /\ SectionHeaderOnly(step(p).out)
      /\ \A q \in CodeBeginLines :
            SectionHeaderOnly(step_from(p, step(q).st).out)
      /\ \A p2 \in PrologueBeginLines :
            RuleOnly(step_from(p2, step(p).st).out)

\* C18: a prologue-begin marker processed while verb is true, in a raw code
\* region or in a field of an open prologue or example, prints a
\* verbatim-end fragment before the separator or section header
C18_PrologueBeginClosesVerbatim ==
  (InFile /\ state.verb /\ ~state.resource) =>
    \A p \in PrologueBeginLines :
      LET out == step(p).out IN
      /\ Has(out, "vend")
      /\ \A i \in 1..Len(out) :
            out[i].k \in {"hrule", "prologues"}
            => \E j \in 1..(i - 1) : out[j].k = "vend"

\* the description label is among the fragments of an output
HasDescriptionLabel(out) ==
  \E i \in 1..Len(out) : out[i] = Frag("label_sf", Tail(sDESCRIPTION))

\* C19: in an open prologue every line that contains !DESCRIPTION: prints
\* the description label, whether or not a verbatim block was open, and
\* prints a verbatim-end fragment first exactly when one was open
C19_DescriptionLabelled ==
  (InFile /\ state.prologue /\ ~state.resource) =>
    \A p \in DescriptionLines :
      LET out == step(p).out IN
      /\ HasDescriptionLabel(out)
      /\ state.verb <=> (out # <<>> /\ out[1].k = "vend")
      /\ ~state.verb => ~Has(out, "vend")

\* the marker tokens that the loop tests before the prologue block
EarlierMarkers ==
  {sQUOTE, tokens.boi, tokens.eoi, tokens.bor, tokens.bop, tokens.bopi}
  \cup intro_markers

\* the lines that contain a key of opts.keys and that no rule ahead of the
\* keyword rule takes
KeywordLines ==
  {p \in LineFacts :
     /\ \E k \in 1..Len(default_keys) : Contains(default_keys[k], p.line)
     /\ marker_token(p, tokens) \notin EarlierMarkers
     /\ prologue_marker(p.fields) \notin prologue_markers
     /\ ~p.has_description}

\* the keys of opts.keys that a line contains
KeysIn(line) ==
  {k \in 1..Len(default_keys) : Contains(default_keys[k], line)}

\* the least number of a nonempty set of numbers
Least(S) == CHOOSE k \in S : \A j \in S : k <= j

\* the label fragments of an output
Labels(out) ==
  SelectSeq(out, LAMBDA f : f.k \in {"label_em", "label_sf"})

\* the position of the only fragment of kind k, 0 when there is none
Position(out, k) ==
  IF Has(out, k) THEN CHOOSE i \in 1..Len(out) : out[i].k = k ELSE 0

\* C20: in an open prologue a line that contains a configured keyword marker
\* and reaches the keyword rule prints a verbatim-end fragment iff verb was
\* true, then the label of the first key in list order that the line
\* contains, then a verbatim-begin fragment, and leaves prologue and verb true
C20_KeywordField ==
  (InFile /\ state.prologue /\ ~state.resource) =>
    \A p \in KeywordLines :
      LET r   == step(p)
          lab == Labels(r.out)
      IN
      /\ Count(r.out, "vend") = (IF state.verb THEN 1 ELSE 0)
      /\ Len(lab) = 1
      /\ lab[1].t = Tail(default_keys[Least(KeysIn(p.line))])
      /\ Count(r.out, "vbegin") = 1
      /\ state.verb => Position(r.out, "vend") < Position(r.out, "label_em")
                                               + Position(r.out, "label_sf")
      /\ Position(r.out, "label_em") + Position(r.out, "label_sf")
           < Position(r.out, "vbegin")
      /\ r.st.prologue
      /\ r.st.verb

\* a keyword line was read in a field of an open prologue and closed the
\* verbatim block, and the line with two keys, !BUGS: ahead of !USES:, would
\* open the USES: field next
C20_SecondKeyFirstInList ==
  /\ InFile
  /\ state.prologue
  /\ state.verb
  /\ emit = <<"vend", "label_em", "vbegin">>
  /\ \E q \in KeywordLines :
        /\ Cardinality(KeysIn(q.line)) = 2
        /\ Labels(step(q).out) = <<Frag("label_em", Tail(key02))>>

\* the keys of opts.keys that name arguments, parameters, the interface, a
\* value or uses: !INTERFACE:, !USES:, !PARAMETERS:, !ARGUMENTS:,
\* !DEFINED PARAMETERS:, !INPUT PARAMETERS:, !INPUT/OUTPUT PARAMETERS:,
\* !OUTPUT PARAMETERS: and !RETURN VALUE:
EmphasizedKeys ==
  {k \in 1..Len(default_keys) :
     default_keys[k] \in {key01, key02, key08, key09, key10, key11, key12,
                          key13, key14}}

\* C21: the label of a keyword field is emphasized exactly when the matched
\* key is an argument, parameter, interface, value or uses key, and plain for
\* every other key, whatever else the line holds
C21_StyleByKey ==
  (InFile /\ state.prologue /\ ~state.resource) =>
    \A p \in KeywordLines :
      Labels(step(p).out)[1].k =
        (IF Least(KeysIn(p.line)) \in EmphasizedKeys
         THEN "label_em" ELSE "label_sf")

\* the field rules of the prologue block that a line satisfies
PrimaryRule(p) == marker_token(p, tokens) \in prologue_markers

DescriptionRule(p) == p.has_description

KeywordRule(p) == KeysIn(p.line) # {}

EndRule(p) == marker_token(p, tokens) \in {tokens.eop, tokens.eopi}

\* the lines that satisfy more than one field rule
MultiRuleLines ==
  {p \in LineFacts :
     /\ marker_token(p, tokens) \notin EarlierMarkers
     /\ Cardinality({r \in {"primary", "description", "keyword", "end"} :
                       \/ r = "primary" /\ PrimaryRule(p)
                       \/ r = "description" /\ DescriptionRule(p)
                       \/ r = "keyword" /\ KeywordRule(p)
                       \/ r = "end" /\ EndRule(p)}) > 1}

\* C22: in an open prologue a line that satisfies more than one field rule
\* is handled by one rule alone, the highest in the order primary field
\* marker, !DESCRIPTION:, keyword, prologue-end; a prologue-end line that
\* holds a keyword is a keyword field and leaves the prologue open
C22_HighestRuleFires ==
  (InFile /\ state.prologue /\ ~state.resource) =>
    \A p \in MultiRuleLines :
      step(p) =
        (IF PrimaryRule(p)
         THEN prologue_processors(marker_token(p, tokens),
                                  Drop(p.fields, mi_of(p) + 1),
                                  file_basename, opts, state)
         ELSE IF DescriptionRule(p)
         THEN description(p.fields, state, lang_name, opts)
         ELSE keyword(default_keys[Least(KeysIn(p.line))],
                      any_em_word(p.line), state, lang_name))

\* the lines whose marker token is !EOP or !EOPI and that no rule ahead of
\* the prologue-end rule takes
PrologueEndLines ==
  {p \in LineFacts :
     /\ EndRule(p)
     /\ prologue_marker(p.fields) \notin prologue_markers
     /\ ~DescriptionRule(p)
     /\ ~KeywordRule(p)}

\* C23: a prologue-end or internal-prologue-end line that no higher rule
\* takes, read with prologue true, leaves prologue and verb false and prints
\* exactly one verbatim-end fragment iff verb was true, whichever begin
\* marker opened the prologue
C23_PrologueEndCloses ==
  (InFile /\ state.prologue /\ ~state.resource) =>
    \A p \in PrologueEndLines :
      /\ ~step(p).st.prologue
      /\ ~step(p).st.verb
      /\ Count(step(p).out, "vend") = (IF state.verb THEN 1 ELSE 0)

\* an example-begin marker has had no example-end marker since and the
\* prologue it opened is closed: a prologue-end marker closed it and the
\* verbatim block of its field
C23_ExampleClosedByPrologueEnd ==
  /\ InFile
  /\ pending = {"E"}
  /\ emit = <<"vend">>
  /\ ~state.prologue
  /\ ~state.verb

\* the entries of the state other than source and verb
CarriedEntries == DOMAIN initial_state \ {"source", "verb"}

\* C24: from the last line of a file to the first line of the next the
\* state is carried over: every entry but source and verb is unchanged, and
\* source and verb change only by the close of an open code region at the
\* end of the file
C24_FileBoundaryFrame ==
  [][((pc = "file" /\ pc' = "main") \/ (pc = "main" /\ pc' = "file")) =>
       /\ \A k \in CarriedEntries : state'[k] = state[k]
       /\ (state' # state) =>
            (state.source /\ ~state'.source /\ ~state'.verb)]_vars

\* the second file has been opened with the introduction, the prologue and
\* the resource table of the first file still open
C24_OpenRegionsCarried ==
  /\ FileJustOpened
  /\ nfiles = 2
  /\ state.intro
  /\ state.prologue
  /\ state.resource

\* the lines that the prologue block dispatches to a heading rule
HeadingLines ==
  {p \in LineFacts :
     p.fields # <<>> /\ prologue_marker(p.fields) \in prologue_markers}

\* the heading of an output comes right after a page-break fragment
PageBreakThenHeading(out) ==
  \E i \in 2..Len(out) : out[i].k = "heading" /\ out[i - 1].k = "newpage"

\* C25: with the new-page flag set every heading of a primary field marker
\* that follows another heading of the run comes right after a page-break
\* fragment; with the flag unset a primary field marker prints no page break
C25_NewPagePerHeading ==
  (InFile /\ state.prologue /\ ~state.resource) =>
    \A p \in HeadingLines :
      Has(step(p).out, "heading") =>
        /\ ~opts.n => ~Has(step(p).out, "newpage")
        /\ opts.n =>
             \A q \in HeadingLines :
               LET r2 == step_from(q, step(p).st) IN
               Has(r2.out, "heading") => PageBreakThenHeading(r2.out)

\* C26: after every line the verbatim-begin fragments printed so far are one
\* more than the verbatim-end fragments when verb is true, and as many when
\* verb is false
C26_VerbMatchesOutput == balance = (IF state.verb THEN 1 ELSE 0)

\* C27: in every reachable state, and after any line read from it, the
\* prologue flag and the source flag are not both true
C27_PrologueSourceExclusive ==
  /\ ~(state.prologue /\ state.source)
  /\ InFile =>
       \A p \in LineFacts : ~(step(p).st.prologue /\ step(p).st.source)

\* a prologue-begin marker was read inside a code region: it closed the
\* region, printed the rule and opened the prologue with source cleared
C27_PrologueBegunInCode ==
  /\ InFile
  /\ HasKind(emit, "comment")
  /\ HasKind(emit, "hrule")
  /\ state.prologue
  /\ ~state.source

\* C28: a completed non-bare run has printed the document-begin fragment
\* before the document-end fragment: the document is not closed without
\* having been begun
C28_DocumentBegunBeforeEnd == (pc = "done" /\ ~opts.bare) => state.begdoc

\* the fragments of the document body: headings, field labels and
\* verbatim-begin fragments
BodyKinds == {"heading", "label_em", "label_sf", "vbegin"}

\* C29: in non-bare mode, whenever a heading, a field label or a
\* verbatim-begin fragment is printed the document has been begun
C29_BodyAfterDocumentBegin ==
  (~opts.bare /\ \E k \in BodyKinds : HasKind(emit, k)) => state.begdoc

=============================================================================
